---- MODULE Spec2Model ----
(***************************************************************************)
(* Model of imagepath.py, the Google Drive image path extractor:           *)
(* authenticate -> list image files page by page -> resolve each image's   *)
(* folder path through get_folder_path and its cache -> write the text     *)
(* report and the JSON dump.                                               *)
(*                                                                         *)
(* A Python str is a sequence of one-character strings, so that lower(),   *)
(* strip(), splitext(), replace() and the f-string concatenations are      *)
(* computed character by character.                                        *)
(***************************************************************************)
EXTENDS Integers, Sequences, FiniteSets, TLC

VARIABLES
    \* the environment: the provider's account, the token file, the terminal
    drive_pages,    \* the pages the provider serves, in order; a page is a sequence of files
    folders,        \* folder id -> [name, parents]: the metadata files().get returns
    token_json,     \* token.json: "absent", "expired" (refreshable) or "valid"
    stdin,          \* the three lines the user types: folder id, output filename, links y/n
    \* the program
    pc,             \* position in main / save_image_paths / get_folder_path
    folder_id,      \* main's folder_id (<<>> stands for None)
    page_token,     \* get_image_files' page_token (<<>> stands for None)
    images,         \* get_image_files' images, then main's
    output_file,
    include_links,
    json_file,
    folder_cache,   \* save_image_paths' folder_cache: folder id -> path
    img_index,      \* position of the for loop of save_image_paths
    stack,          \* the active get_folder_path frames, outermost first
    ret,            \* <<v>> when the innermost call has just returned v, else <<>>
    fs,             \* the output files: filename -> content
    out,            \* what was printed
    \* history
    failure,        \* "none", or the stage whose exception reached main's handler
    list_log,       \* the page tokens files().list was requested with, in order
    fetch_log,      \* the files().get requests: [image, folder, ok], in order
    resolved        \* per written line: [has_folder, folder_path, full_path]

env_vars  == <<drive_pages, folders, stdin>>
main_vars == <<folder_id, page_token, images, output_file, include_links, json_file>>
save_vars == <<folder_cache, img_index, stack, ret, resolved>>
vars == <<drive_pages, folders, token_json, stdin, pc, folder_id, page_token, images,
          output_file, include_links, json_file, folder_cache, img_index, stack, ret,
          fs, out, failure, list_log, fetch_log, resolved>>

----------------------------------------------------------------------------
(* Bounds of the model *)

MaxFiles == 2           \* files on the account
MaxPages == 2           \* pages the provider splits a listing into
RecursionLimit == 5     \* depth at which Python raises RecursionError

----------------------------------------------------------------------------
(* Python str operations *)

SLASH == <<"/">>
UNKNOWN == <<"U", "n", "k", "n", "o", "w", "n">>
TXT == <<".", "t", "x", "t">>
JSON == <<".", "j", "s", "o", "n">>
DEFAULT_OUTPUT == <<"i", "m", "a", "g", "e", "_", "p", "a", "t", "h", "s">> \o TXT
LINE_SEP == <<" ", "|", " ">>

IMAGE_EXTENSIONS ==
    { <<".", "j", "p", "g">>, <<".", "j", "p", "e", "g">>, <<".", "p", "n", "g">>,
      <<".", "g", "i", "f">>, <<".", "b", "m", "p">>, <<".", "t", "i", "f", "f">>,
      <<".", "t", "i", "f">>, <<".", "w", "e", "b", "p">>, <<".", "s", "v", "g">>,
      <<".", "i", "c", "o">> }

LowerChar(c) ==
    CASE c = "A" -> "a" [] c = "B" -> "b" [] c = "C" -> "c" [] c = "D" -> "d"
      [] c = "E" -> "e" [] c = "F" -> "f" [] c = "G" -> "g" [] c = "H" -> "h"
      [] c = "I" -> "i" [] c = "J" -> "j" [] c = "K" -> "k" [] c = "L" -> "l"
      [] c = "M" -> "m" [] c = "N" -> "n" [] c = "O" -> "o" [] c = "P" -> "p"
      [] c = "Q" -> "q" [] c = "R" -> "r" [] c = "S" -> "s" [] c = "T" -> "t"
      [] c = "U" -> "u" [] c = "V" -> "v" [] c = "W" -> "w" [] c = "X" -> "x"
      [] c = "Y" -> "y" [] c = "Z" -> "z" [] OTHER -> c

\* str.lower()
Lower(s) == [k \in 1..Len(s) |-> LowerChar(s[k])]

\* str.strip(): leading and trailing whitespace removed
RECURSIVE Strip(_)
Strip(s) ==
    IF s = <<>> THEN s
    ELSE IF Head(s) = " " THEN Strip(Tail(s))
    ELSE IF s[Len(s)] = " " THEN Strip(SubSeq(s, 1, Len(s) - 1))
    ELSE s

\* str.rfind(c) for a one-character c, 1-based; 0 when c does not occur
RFind(s, c) ==
    LET at == {k \in 1..Len(s) : s[k] = c}
    IN  IF at = {} THEN 0 ELSE CHOOSE k \in at : \A j \in at : j <= k

\* os.path.splitext(p)[1]: the text from the last dot on, when that dot comes
\* after the last '/' and some character between them is not a dot
SplitExt(p) ==
    LET sepIndex == RFind(p, "/")
        dotIndex == RFind(p, ".")
    IN  IF dotIndex > sepIndex /\ \E k \in (sepIndex + 1)..(dotIndex - 1) : p[k] # "."
        THEN SubSeq(p, dotIndex, Len(p))
        ELSE <<>>

StartsWith(s, prefix) ==
    Len(s) >= Len(prefix) /\ SubSeq(s, 1, Len(prefix)) = prefix

\* str.replace(old, new): every non-overlapping occurrence, left to right
RECURSIVE Replace(_, _, _)
Replace(s, old, new) ==
    IF s = <<>> THEN s
    ELSE IF StartsWith(s, old)
         THEN new \o Replace(SubSeq(s, Len(old) + 1, Len(s)), old, new)
         ELSE <<Head(s)>> \o Replace(Tail(s), old, new)

----------------------------------------------------------------------------
(* The provider: files().list and files().get *)

Digits == <<"1", "2", "3", "4", "5", "6", "7", "8", "9">>

\* the continuation token the provider hands out for page k
TokenOf(k) == <<"t", Digits[k]>>

PageIndex(token) ==
    IF token = <<>> THEN 1
    ELSE CHOOSE k \in 1..Len(drive_pages) : TokenOf(k) = token

\* q = "trashed=false" [and '<folder_id>' in parents]
Matches(file, fid) ==
    fid = <<>> \/ \E k \in 1..Len(file.parents) : file.parents[k] = fid

\* service.files().list(q, pageSize, fields, pageToken).execute()
ListResponse(fid, token) ==
    LET k == PageIndex(token)
    IN  [files |-> SelectSeq(drive_pages[k], LAMBDA file : Matches(file, fid)),
         nextPageToken |-> IF k < Len(drive_pages) THEN TokenOf(k + 1) ELSE <<>>]

----------------------------------------------------------------------------
(* get_image_files *)

\* mutant: the extension is compared without lower()
IsImageNameCaseSensitive(name) == SplitExt(name) \in IMAGE_EXTENSIONS

IsImageName(name) == SplitExt(Lower(name)) \in IMAGE_EXTENSIONS

ImageRecord(file) ==
    [name |-> file.name, id |-> file.id, web_view_link |-> file.webViewLink,
     web_content_link |-> file.webContentLink, parents |-> file.parents]

\* the for loop over one page: the image files of the page, appended in order
RECURSIVE PageImages(_)
PageImages(files) ==
    IF files = <<>> THEN <<>>
    ELSE (IF IsImageName(Head(files).name) THEN <<ImageRecord(Head(files))>> ELSE <<>>)
         \o PageImages(Tail(files))

----------------------------------------------------------------------------
(* get_folder_path *)

\* f"{parent_path}/{folder_name}" if parent_path else folder_name
JoinPath(parent_path, folder_name) ==
    IF parent_path # <<>> THEN parent_path \o SLASH \o folder_name ELSE folder_name

\* mutant: the last parent is followed instead of the first
LastParent(parents) == parents[Len(parents)]

\* parents[0]
FirstParent(parents) == parents[1]

Frame(fid) == [folder_id |-> fid, folder_name |-> <<>>, fetched |-> FALSE]

Top == stack[Len(stack)]

Caller == SubSeq(stack, 1, Len(stack) - 1)

\* mutant: the cache is not keyed by folder id, its one value is shared
CacheStoreUnkeyed(cache, fid, full_path) ==
    [k \in DOMAIN cache \cup {fid} |-> full_path]

CacheStore(cache, fid, full_path) ==
    [k \in DOMAIN cache \cup {fid} |-> IF k = fid THEN full_path ELSE cache[k]]

Fetch(fid, ok) == [image |-> img_index, folder |-> fid, ok |-> ok]

----------------------------------------------------------------------------
(* save_image_paths and main's JSON dump *)

\* the line written for one image
ReportLine(full_path, img, links) ==
    IF links
    THEN full_path \o LINE_SEP \o img.id \o LINE_SEP \o img.web_view_link
         \o LINE_SEP \o img.web_content_link
    ELSE full_path

\* open(output_file, 'w') and the three header lines
NewReport(total) == [kind |-> "text", total |-> total, lines |-> <<>>, objects |-> <<>>]

WriteFile(files, name, content) ==
    [k \in DOMAIN files \cup {name} |-> IF k = name THEN content ELSE files[k]]

AppendLine(files, name, line) ==
    [files EXCEPT ![name].lines = Append(@, line)]

\* output_file.replace('.txt', '.json')
JsonFileName(name) == Replace(name, TXT, JSON)

\* mutant: the name is written under the key "id"
JsonObjectIdFromName(img) ==
    << <<"name", img.name>>, <<"id", img.name>>, <<"web_view_link", img.web_view_link>>,
       <<"web_content_link", img.web_content_link>>, <<"parents", img.parents>> >>

\* json.dump: every record becomes an object, a list of key/value members
JsonObject(img) ==
    << <<"name", img.name>>, <<"id", img.id>>, <<"web_view_link", img.web_view_link>>,
       <<"web_content_link", img.web_content_link>>, <<"parents", img.parents>> >>

JsonDump(imgs) ==
    [kind |-> "json", total |-> 0, lines |-> <<>>,
     objects |-> [k \in 1..Len(imgs) |-> JsonObject(imgs[k])]]

----------------------------------------------------------------------------
(* main *)

\* except Exception as e: print(f"Error: {e}")
Raise(stage) ==
    /\ pc' = "done"
    /\ failure' = stage
    /\ out' = Append(out, "Error: " \o stage)

AuthenticateOk ==
    /\ pc = "start"
    /\ token_json' = "valid"
    /\ pc' = "prompt_folder"
    /\ out' = Append(out, "Authenticating with Google Drive...")
    /\ UNCHANGED <<env_vars, main_vars, save_vars, fs, failure, list_log, fetch_log>>

\* the credentials or build() raise; token.json is written once the credentials
\* were obtained
AuthenticateFail ==
    /\ pc = "start"
    /\ \E built \in BOOLEAN :
         token_json' = IF built THEN "valid" ELSE token_json
    /\ pc' = "done"
    /\ failure' = "auth"
    /\ out' = out \o <<"Authenticating with Google Drive...", "Error: auth">>
    /\ UNCHANGED <<env_vars, main_vars, save_vars, fs, list_log, fetch_log>>

PromptFolder ==
    /\ pc = "prompt_folder"
    /\ folder_id' = Strip(stdin[1])
    /\ page_token' = <<>>
    /\ images' = <<>>
    /\ pc' = "list"
    /\ out' = out \o <<"Enter folder ID (press Enter for entire Drive): ",
                       "Searching for image files...">>
    /\ UNCHANGED <<env_vars, token_json, output_file, include_links, json_file,
                   save_vars, fs, failure, list_log, fetch_log>>

\* one iteration of the while loop of get_image_files
ListPageOk ==
    /\ pc = "list"
    /\ LET results == ListResponse(folder_id, page_token)
       IN  /\ images' = images \o PageImages(results.files)
           /\ page_token' = results.nextPageToken
           /\ pc' = IF results.nextPageToken = <<>> THEN "listed" ELSE "list"
    /\ list_log' = Append(list_log, page_token)
    /\ UNCHANGED <<env_vars, token_json, folder_id, output_file, include_links,
                   json_file, save_vars, fs, out, failure, fetch_log>>

\* mutant: the failed page request is made again
ListPageFailRetries ==
    /\ pc = "list"
    /\ list_log' = Append(list_log, page_token)
    /\ UNCHANGED <<env_vars, token_json, main_vars, save_vars, fs, fetch_log, pc, out,
                   failure>>

ListPageFail ==
    /\ pc = "list"
    /\ list_log' = Append(list_log, page_token)
    /\ Raise("list")
    /\ UNCHANGED <<env_vars, token_json, main_vars, save_vars, fs, fetch_log>>

MainNoImages ==
    /\ pc = "listed"
    /\ images = <<>>
    /\ pc' = "done"
    /\ out' = Append(out, "No image files found.")
    /\ UNCHANGED <<env_vars, token_json, main_vars, save_vars, fs, failure,
                   list_log, fetch_log>>

\* mutant: main goes on to the prompts without the check for an empty listing
MainPromptsUnguarded ==
    /\ pc = "listed"
    /\ output_file' = (IF Strip(stdin[2]) = <<>> THEN DEFAULT_OUTPUT ELSE Strip(stdin[2]))
    /\ include_links' = (Lower(Strip(stdin[3])) # <<"n">>)
    /\ pc' = "save"
    /\ out' = out \o <<"Found images", "Output filename (default: image_paths.txt): ",
                       "Include download links? (y/n, default: y): ">>
    /\ UNCHANGED <<env_vars, token_json, folder_id, page_token, images, json_file,
                   save_vars, fs, failure, list_log, fetch_log>>

MainPrompts ==
    /\ pc = "listed"
    /\ images # <<>>
    /\ output_file' = (IF Strip(stdin[2]) = <<>> THEN DEFAULT_OUTPUT ELSE Strip(stdin[2]))
    /\ include_links' = (Lower(Strip(stdin[3])) # <<"n">>)
    /\ pc' = "save"
    /\ out' = out \o <<"Found images", "Output filename (default: image_paths.txt): ",
                       "Include download links? (y/n, default: y): ">>
    /\ UNCHANGED <<env_vars, token_json, folder_id, page_token, images, json_file,
                   save_vars, fs, failure, list_log, fetch_log>>

SaveOpen ==
    /\ pc = "save"
    /\ folder_cache' = << >>
    /\ fs' = WriteFile(fs, output_file, NewReport(Len(images)))
    /\ img_index' = 1
    /\ pc' = "loop"
    /\ UNCHANGED <<env_vars, token_json, main_vars, stack, ret, resolved, out,
                   failure, list_log, fetch_log>>

SaveNoParents ==
    /\ pc = "loop"
    /\ img_index <= Len(images)
    /\ images[img_index].parents = <<>>
    /\ LET img == images[img_index]
       IN  /\ fs' = AppendLine(fs, output_file, ReportLine(img.name, img, include_links))
           /\ resolved' = Append(resolved,
                  [has_folder |-> FALSE, folder_path |-> <<>>, full_path |-> img.name])
    /\ img_index' = img_index + 1
    /\ UNCHANGED <<env_vars, token_json, main_vars, pc, folder_cache, stack, ret, out,
                   failure, list_log, fetch_log>>

SaveCall ==
    /\ pc = "loop"
    /\ img_index <= Len(images)
    /\ images[img_index].parents # <<>>
    /\ stack' = <<Frame(images[img_index].parents[1])>>
    /\ ret' = <<>>
    /\ pc' = "resolve"
    /\ UNCHANGED <<env_vars, token_json, main_vars, folder_cache, img_index, resolved,
                   fs, out, failure, list_log, fetch_log>>

Return(v) ==
    /\ stack' = Caller
    /\ ret' = <<v>>

GfpCacheHit ==
    /\ pc = "resolve" /\ stack # <<>> /\ ~Top.fetched
    /\ Top.folder_id \in DOMAIN folder_cache
    /\ Return(folder_cache[Top.folder_id])
    /\ UNCHANGED <<env_vars, token_json, main_vars, pc, folder_cache, img_index,
                   resolved, fs, out, failure, list_log, fetch_log>>

\* mutant: the fetch is not inside a try block, its error reaches main's handler
GfpFetchFailPropagates ==
    /\ pc = "resolve" /\ stack # <<>> /\ ~Top.fetched
    /\ Top.folder_id \notin DOMAIN folder_cache
    /\ fetch_log' = Append(fetch_log, Fetch(Top.folder_id, FALSE))
    /\ Raise("fetch")
    /\ UNCHANGED <<env_vars, token_json, main_vars, save_vars, fs, list_log>>

GfpFetchFail ==
    /\ pc = "resolve" /\ stack # <<>> /\ ~Top.fetched
    /\ Top.folder_id \notin DOMAIN folder_cache
    /\ fetch_log' = Append(fetch_log, Fetch(Top.folder_id, FALSE))
    /\ out' = Append(out, "Error getting folder path")
    /\ Return(UNKNOWN)
    /\ UNCHANGED <<env_vars, token_json, main_vars, pc, folder_cache, img_index,
                   resolved, fs, failure, list_log>>

GfpFetchRoot ==
    /\ pc = "resolve" /\ stack # <<>> /\ ~Top.fetched
    /\ Top.folder_id \notin DOMAIN folder_cache
    /\ Top.folder_id \in DOMAIN folders
    /\ folders[Top.folder_id].parents = <<>>
    /\ fetch_log' = Append(fetch_log, Fetch(Top.folder_id, TRUE))
    /\ LET full_path == folders[Top.folder_id].name
       IN  /\ folder_cache' = CacheStore(folder_cache, Top.folder_id, full_path)
           /\ Return(full_path)
    /\ UNCHANGED <<env_vars, token_json, main_vars, pc, img_index, resolved, fs, out,
                   failure, list_log>>

\* mutant: the recursive call is made with folder_id instead of parents[0]
GfpFetchDescendSameFolder ==
    /\ pc = "resolve" /\ stack # <<>> /\ ~Top.fetched
    /\ Top.folder_id \notin DOMAIN folder_cache
    /\ Top.folder_id \in DOMAIN folders
    /\ folders[Top.folder_id].parents # <<>>
    /\ fetch_log' = Append(fetch_log, Fetch(Top.folder_id, TRUE))
    /\ IF Len(stack) < RecursionLimit
       THEN /\ stack' = Append([stack EXCEPT ![Len(stack)] =
                                   [@ EXCEPT !.folder_name = folders[Top.folder_id].name,
                                             !.fetched = TRUE]],
                               Frame(Top.folder_id))
            /\ ret' = <<>>
            /\ out' = out
       ELSE /\ Return(UNKNOWN)
            /\ out' = Append(out, "Error getting folder path")
    /\ UNCHANGED <<env_vars, token_json, main_vars, pc, folder_cache, img_index,
                   resolved, fs, failure, list_log>>

\* the recursive call; past the recursion limit it raises RecursionError, which
\* the caller's except clause turns into "Unknown"
GfpFetchDescend ==
    /\ pc = "resolve" /\ stack # <<>> /\ ~Top.fetched
    /\ Top.folder_id \notin DOMAIN folder_cache
    /\ Top.folder_id \in DOMAIN folders
    /\ folders[Top.folder_id].parents # <<>>
    /\ fetch_log' = Append(fetch_log, Fetch(Top.folder_id, TRUE))
    /\ IF Len(stack) < RecursionLimit
       THEN /\ stack' = Append([stack EXCEPT ![Len(stack)] =
                                   [@ EXCEPT !.folder_name = folders[Top.folder_id].name,
                                             !.fetched = TRUE]],
                               Frame(FirstParent(folders[Top.folder_id].parents)))
            /\ ret' = <<>>
            /\ out' = out
       ELSE /\ Return(UNKNOWN)
            /\ out' = Append(out, "Error getting folder path")
    /\ UNCHANGED <<env_vars, token_json, main_vars, pc, folder_cache, img_index,
                   resolved, fs, failure, list_log>>

\* the recursive call returned parent_path
GfpResume ==
    /\ pc = "resolve" /\ stack # <<>> /\ Top.fetched /\ ret # <<>>
    /\ LET full_path == JoinPath(ret[1], Top.folder_name)
       IN  /\ folder_cache' = CacheStore(folder_cache, Top.folder_id, full_path)
           /\ Return(full_path)
    /\ UNCHANGED <<env_vars, token_json, main_vars, pc, img_index, resolved, fs, out,
                   failure, list_log, fetch_log>>

SaveWrite ==
    /\ pc = "resolve" /\ stack = <<>> /\ ret # <<>>
    /\ LET img == images[img_index]
           folder_path == ret[1]
           full_path == folder_path \o SLASH \o img.name
       IN  /\ fs' = AppendLine(fs, output_file, ReportLine(full_path, img, include_links))
           /\ resolved' = Append(resolved,
                  [has_folder |-> TRUE, folder_path |-> folder_path, full_path |-> full_path])
    /\ img_index' = img_index + 1
    /\ ret' = <<>>
    /\ pc' = "loop"
    /\ UNCHANGED <<env_vars, token_json, main_vars, folder_cache, stack, out, failure,
                   list_log, fetch_log>>

SaveClose ==
    /\ pc = "loop"
    /\ img_index > Len(images)
    /\ pc' = "json"
    /\ out' = Append(out, "Image paths saved")
    /\ UNCHANGED <<env_vars, token_json, main_vars, save_vars, fs, failure, list_log,
                   fetch_log>>

WriteJson ==
    /\ pc = "json"
    /\ json_file' = JsonFileName(output_file)
    /\ fs' = WriteFile(fs, JsonFileName(output_file), JsonDump(images))
    /\ pc' = "done"
    /\ out' = Append(out, "Also saved JSON data")
    /\ UNCHANGED <<env_vars, token_json, folder_id, page_token, images, output_file,
                   include_links, save_vars, failure, list_log, fetch_log>>

Next ==
    \/ AuthenticateOk \/ AuthenticateFail \/ PromptFolder
    \/ ListPageOk \/ ListPageFail \/ MainNoImages \/ MainPrompts
    \/ SaveOpen \/ SaveNoParents \/ SaveCall
    \/ GfpCacheHit \/ GfpFetchFail \/ GfpFetchRoot \/ GfpFetchDescend \/ GfpResume
    \/ SaveWrite \/ SaveClose \/ WriteJson

----------------------------------------------------------------------------
(* The accounts, terminals and token files the program is run against *)

F1 == <<"F", "1">>
F2 == <<"F", "2">>
F3 == <<"F", "3">>
FolderSeq == <<F1, F2, F3>>
FolderIds == {F1, F2, F3}

PHOTOS == <<"P", "h", "o", "t", "o", "s">>
Y2024 == <<"2", "0", "2", "4">>
IMG_JPG == <<"I", "M", "G", ".", "J", "P", "G">>
NOTES_TXT == <<"n", "o", "t", "e", "s", ".", "t", "x", "t">>
DOT_GIF == <<".", "g", "i", "f">>
A_PNG == <<"a", ".", "p", "n", "g">>

\* the parent lists a folder or file may report: none, one, or two parents
ParentLists(S) ==
    {<<>>} \cup {<<a>> : a \in S} \cup {p \in S \X S : p[1] # p[2]}

Below(k) == {FolderSeq[j] : j \in 1..(k - 1)}

\* folder trees: every parent of a folder comes before it in FolderSeq
AcyclicGraphs(Names) ==
    {g \in [FolderIds -> [name : Names, parents : ParentLists(FolderIds)]] :
        \A k \in 1..Len(FolderSeq) : g[FolderSeq[k]].parents \in ParentLists(Below(k))}

\* parent graphs with at most one parent per folder, cycles included
AnyGraphs(Names) ==
    [FolderIds -> [name : Names, parents : {<<>>} \cup {<<a>> : a \in FolderIds}]]

\* the first-parent chain of folder f, f first, at most fuel + 1 folders long
RECURSIVE ChainFrom(_, _, _)
ChainFrom(g, f, fuel) ==
    IF g[f].parents = <<>> \/ fuel = 0 THEN <<f>>
    ELSE <<f>> \o ChainFrom(g, g[f].parents[1], fuel - 1)

Last(s) == s[Len(s)]

\* no first-parent chain runs into a cycle
Acyclic(g) ==
    \A f \in FolderIds : g[Last(ChainFrom(g, f, Cardinality(FolderIds)))].parents = <<>>

MkFile(k, kind) ==
    [id |-> <<"i", Digits[k]>>, name |-> kind.name, parents |-> kind.parents,
     webViewLink |-> <<"v", Digits[k]>>, webContentLink |-> <<"c", Digits[k]>>]

RECURSIVE Sum(_)
Sum(s) == IF s = <<>> THEN 0 ELSE Head(s) + Sum(Tail(s))

\* the ways the provider cuts n files into 1..pages pages (a page may be empty)
PageSizes(n, pages) ==
    {sz \in UNION {[1..p -> 0..n] : p \in 1..pages} : Sum(sz) = n}

Paginate(files, sz) ==
    [p \in 1..Len(sz) |->
        SubSeq(files, Sum(SubSeq(sz, 1, p - 1)) + 1, Sum(SubSeq(sz, 1, p)))]

\* every listing of at most MaxFiles files of the given kinds, cut into pages
Listings(Kinds, pages) ==
    UNION { { Paginate([k \in 1..Len(ks) |-> MkFile(k, ks[k])], sz) :
                sz \in PageSizes(Len(ks), pages) }
            : ks \in UNION {[1..n -> Kinds] : n \in 0..MaxFiles} }

ProgramInit ==
    /\ pc = "start"
    /\ folder_id = <<>> /\ page_token = <<>> /\ images = <<>>
    /\ output_file = <<>> /\ include_links = TRUE /\ json_file = <<>>
    /\ folder_cache = << >> /\ img_index = 0 /\ stack = <<>> /\ ret = <<>>
    /\ resolved = <<>> /\ fs = << >> /\ out = <<>>
    /\ failure = "none" /\ list_log = <<>> /\ fetch_log = <<>>

\* Spec: folder trees of every shape and naming, image files anywhere in them
TreeKinds ==
    [name : {A_PNG}, parents : {<<>>, <<F2>>, <<F3>>, <<F3, F1>>}]

Init ==
    /\ folders \in AcyclicGraphs({<<>>, PHOTOS})
    /\ drive_pages \in Listings(TreeKinds, 1)
    /\ token_json = "valid"
    /\ stdin = <<<<>>, <<>>, <<>>>>
    /\ ProgramInit

Spec == Init /\ [][Next]_vars

\* SpecListing: one folder chain, files of every kind of name, every paging,
\* every answer at the prompts
ChainGraph ==
    [f \in FolderIds |->
        IF f = F1 THEN [name |-> PHOTOS, parents |-> <<>>]
        ELSE IF f = F2 THEN [name |-> Y2024, parents |-> <<F1>>]
        ELSE [name |-> <<"x">>, parents |-> <<F2>>]]

ListingKinds ==
    { [name |-> IMG_JPG, parents |-> <<F2>>], [name |-> NOTES_TXT, parents |-> <<F1>>],
      [name |-> DOT_GIF, parents |-> <<F1>>], [name |-> A_PNG, parents |-> <<>>] }

InitListing ==
    /\ folders = ChainGraph
    /\ drive_pages \in Listings(ListingKinds, MaxPages)
    /\ token_json \in {"absent", "expired", "valid"}
    /\ stdin \in {<<>>, <<" ", "F", "1">>}
                 \X {<<>>, <<"r">>, <<"r">> \o TXT, <<" ", "r", ".", "T", "X", "T">>}
                 \X {<<>>, <<"N", " ">>}
    /\ ProgramInit

SpecListing == InitListing /\ [][Next]_vars

\* SpecGraphs: every parent graph with at most one parent per folder, cyclic
\* ones included; the program always takes its next step
GraphKinds == [name : {A_PNG}, parents : {<<>>, <<F1>>}]

InitGraphs ==
    /\ folders \in AnyGraphs({<<"d">>})
    /\ drive_pages \in Listings(GraphKinds, 1)
    /\ token_json = "valid"
    /\ stdin = <<<<>>, <<>>, <<>>>>
    /\ ProgramInit

SpecGraphs == InitGraphs /\ [][Next]_vars /\ WF_vars(Next)

----------------------------------------------------------------------------
(* Vocabulary of the properties *)

Reverse(s) == [k \in 1..Len(s) |-> s[Len(s) + 1 - k]]

\* the names joined by '/'
RECURSIVE JoinSlash(_)
JoinSlash(names) ==
    IF names = <<>> THEN <<>>
    ELSE IF Len(names) = 1 THEN names[1]
    ELSE JoinSlash(SubSeq(names, 1, Len(names) - 1)) \o SLASH \o names[Len(names)]

RECURSIVE DropLeadingEmpty(_)
DropLeadingEmpty(names) ==
    IF names # <<>> /\ Head(names) = <<>> THEN DropLeadingEmpty(Tail(names)) ELSE names

\* the names on the first-parent chain of folder f, the parentless root first
RootToLeafNames(f) ==
    LET chain == Reverse(ChainFrom(folders, f, Cardinality(FolderIds)))
    IN  [k \in 1..Len(chain) |-> folders[chain[k]].name]

\* the folder get_folder_path was called with for the k-th image
FolderOf(k) == images[k].parents[1]

WithFolder == {k \in 1..Len(resolved) : resolved[k].has_folder}

AllFetchesOk == \A k \in 1..Len(fetch_log) : fetch_log[k].ok

FetchesOf(f) == {k \in 1..Len(fetch_log) : fetch_log[k].folder = f}

Failed == {fetch_log[k].folder : k \in {j \in 1..Len(fetch_log) : ~fetch_log[j].ok}}

Fetched == {fetch_log[k].folder : k \in {j \in 1..Len(fetch_log) : fetch_log[j].ok}}

\* every folder answered the same way each time it was asked
FixedAnswers == Failed \cap Fetched = {}

\* a fetch raised while the k-th image was resolved
RaisedIn(k) == \E j \in 1..Len(fetch_log) : fetch_log[j].image = k /\ ~fetch_log[j].ok

NormalEnd == pc = "done" /\ failure = "none" /\ images # <<>>

\* json.load: the value of a member of an object
Member(object, key) ==
    object[CHOOSE k \in 1..Len(object) : object[k][1] = key][2]

JsonLoadIds(content) ==
    [k \in 1..Len(content.objects) |-> Member(content.objects[k], "id")]

----------------------------------------------------------------------------
(* C1 as stated: when every metadata fetch succeeds, the path of a folder is   *)
(* the names on its first-parent chain, root first, joined by '/'.  Violated   *)
(* when the chain starts with folders whose name is empty.                     *)
C1_JoinedRootToLeaf ==
    AllFetchesOk =>
        \A k \in WithFolder :
            resolved[k].folder_path = JoinSlash(RootToLeafNames(FolderOf(k)))

(* C1 amended: when every metadata fetch succeeds, the path of a folder is the *)
(* names on its first-parent chain (only parents[0] is followed), root first,  *)
(* joined by '/', after the empty names at the root end of the chain are       *)
(* dropped; it is a function of the graph, the same on every call.             *)
C1_JoinedAfterEmptyRoots ==
    AllFetchesOk =>
        \A k \in WithFolder :
            resolved[k].folder_path =
                JoinSlash(DropLeadingEmpty(RootToLeafNames(FolderOf(k))))

\* a folder with two parents, two levels below a named root, was resolved twice
C1_Witness ==
    /\ AllFetchesOk
    /\ Cardinality(WithFolder) = 2
    /\ \A k \in WithFolder :
         /\ FolderOf(k) = F3
         /\ folders[F3].parents = <<F2, F1>>
         /\ resolved[k].folder_path = PHOTOS \o SLASH \o PHOTOS \o SLASH \o PHOTOS

----------------------------------------------------------------------------
(* C2 as stated: within one save_image_paths run the metadata of a folder id   *)
(* is fetched at most once.                                                    *)
C2_FetchedAtMostOnce ==
    \A f \in FolderIds : Cardinality(FetchesOf(f)) <= 1

----------------------------------------------------------------------------
\* the folders fetched while the k-th image was resolved, in fetch order: its
\* folder first, then one ancestor after the other
WalkOf(k) ==
    LET log == SelectSeq(fetch_log, LAMBDA r : r.image = k)
    IN  [j \in 1..Len(log) |-> log[j].folder]

\* "Unknown" for the folder whose fetch raised (the last of the walk), followed
\* by the names of the folders below it, down to the image's folder
UnknownThenBelow(k) ==
    LET walk == WalkOf(k)
        below == Reverse(SubSeq(walk, 1, Len(walk) - 1))
    IN  JoinSlash(<<UNKNOWN>> \o [j \in 1..Len(below) |-> folders[below[j]].name])

\* the report holds one line per image, in listing order
ReportComplete ==
    /\ Len(resolved) = Len(images)
    /\ output_file \in DOMAIN fs
    /\ fs[output_file].kind = "text"
    /\ Len(fs[output_file].lines) = Len(images)
    /\ \A k \in 1..Len(images) :
         /\ fs[output_file].lines[k] =
                ReportLine(resolved[k].full_path, images[k], include_links)
         /\ resolved[k].full_path =
                (IF images[k].parents = <<>> THEN images[k].name
                 ELSE resolved[k].folder_path \o SLASH \o images[k].name)

SomeFetchRaised == \E k \in 1..Len(fetch_log) : ~fetch_log[k].ok

(* C3 as stated: when the fetch of a folder on an image's parent chain raises, *)
(* the folder path of that image is "Unknown"; the error is not propagated     *)
(* and the report ends with one line per image.  Violated when the folder that *)
(* fails is an ancestor of the image's folder.                                 *)
C3_PathIsUnknown ==
    /\ \A k \in WithFolder : RaisedIn(k) => resolved[k].folder_path = UNKNOWN
    /\ (SomeFetchRaised /\ pc = "json") => ReportComplete
    /\ failure \in {"none", "auth", "list"}

(* C3 amended: when the fetch of a folder on an image's parent chain raises,   *)
(* the folder path of that image is "Unknown" in place of the failing folder   *)
(* and everything above it, followed by the names of the folders below it; the *)
(* error is not propagated, and when save_image_paths returns the report holds *)
(* one line per image, in listing order.                                       *)
C3_UnknownThenNamesBelow ==
    /\ \A k \in WithFolder :
         RaisedIn(k) => /\ resolved[k].folder_path = UnknownThenBelow(k)
                        /\ StartsWith(resolved[k].folder_path, UNKNOWN)
    /\ (SomeFetchRaised /\ pc = "json") => ReportComplete
    /\ (SomeFetchRaised /\ pc = "done") => failure = "none" /\ Len(resolved) = Len(images)
    /\ failure \in {"none", "auth", "list"}

\* the fetch of the grandparent of the first image's folder raised, and a
\* second image was still resolved and written
C3_Witness ==
    /\ pc = "json"
    /\ Len(images) = 2
    /\ RaisedIn(1) /\ ~RaisedIn(2)
    /\ Len(WalkOf(1)) = 3
    /\ resolved[1].folder_path = UNKNOWN \o SLASH \o PHOTOS \o SLASH \o PHOTOS
    /\ Len(fs[output_file].lines) = 2

----------------------------------------------------------------------------
\* get_folder_path(f) started with an empty cache, when exactly the folders of
\* dead raise: the code of get_folder_path without its cache
RECURSIVE ColdPath(_, _)
ColdPath(f, dead) ==
    IF f \in dead THEN UNKNOWN
    ELSE IF folders[f].parents = <<>> THEN folders[f].name
    ELSE JoinPath(ColdPath(FirstParent(folders[f].parents), dead), folders[f].name)

----------------------------------------------------------------------------
RECURSIVE Flatten(_)
Flatten(pages) == IF pages = <<>> THEN <<>> ELSE Head(pages) \o Flatten(Tail(pages))

\* the name ends, in any letter case, with one of the image extensions, and
\* what comes before has a character other than '.' after its last '/'
HasImageExtension(name) ==
    \E e \in IMAGE_EXTENSIONS :
        /\ Len(name) > Len(e)
        /\ Lower(SubSeq(name, Len(name) - Len(e) + 1, Len(name))) = e
        /\ LET stem == SubSeq(name, 1, Len(name) - Len(e))
           IN  \E k \in (RFind(stem, "/") + 1)..Len(stem) : stem[k] # "."

\* the image files among the first n pages of the scope, in provider order
ImagesOfPages(n) ==
    LET served == SelectSeq(Flatten(SubSeq(drive_pages, 1, n)),
                            LAMBDA file : Matches(file, folder_id))
        kept == SelectSeq(served, LAMBDA file : HasImageExtension(file.name))
    IN  [k \in 1..Len(kept) |-> ImageRecord(kept[k])]

\* the page tokens of the first n requests: none, then each page's successor
TokensOfPages(n) == [k \in 1..n |-> IF k = 1 THEN <<>> ELSE TokenOf(k)]

Listed == pc \notin {"start", "prompt_folder", "list"} /\ failure = "none"

NoRepeat(s) == \A j, k \in 1..Len(s) : s[j] = s[k] => j = k

Count(s, x) == Cardinality({k \in 1..Len(s) : s[k] = x})

(* C4: get_image_files requests the pages one after another, each with the     *)
(* continuation token of the page before, until a page carries none; the       *)
(* list it returns is exactly the files of all pages, in provider order, whose *)
(* name has an image extension in any letter case ('IMG.JPG' is kept,          *)
(* 'notes.txt' is not), none dropped and none duplicated.                      *)
C4_AllPagesFiltered ==
    /\ IsImageName(IMG_JPG) /\ ~IsImageName(NOTES_TXT)
    /\ pc = "list" =>
         /\ Len(list_log) < Len(drive_pages)
         /\ list_log = TokensOfPages(Len(list_log))
         /\ images = ImagesOfPages(Len(list_log))
    /\ Listed =>
         /\ list_log = TokensOfPages(Len(drive_pages))
         /\ images = ImagesOfPages(Len(drive_pages))

\* two pages were listed; IMG.JPG of the second page was kept, notes.txt of the
\* first was not
C4_Witness ==
    /\ pc = "listed"
    /\ Len(drive_pages) = 2
    /\ folder_id = <<>>
    /\ drive_pages[1] # <<>> /\ drive_pages[1][1].name = NOTES_TXT
    /\ drive_pages[2] # <<>> /\ drive_pages[2][1].name = IMG_JPG
    /\ Len(images) = 1 /\ images[1].name = IMG_JPG /\ images[1].id = <<"i", "2">>

----------------------------------------------------------------------------
(* C5 as stated: after a run that completes with a non-empty listing, the JSON *)
(* file has a name other than the report's, both files exist, and the report   *)
(* was not overwritten by the JSON.                                            *)
C5_JsonBesideReport ==
    NormalEnd =>
        /\ json_file # output_file
        /\ {output_file, json_file} \subseteq DOMAIN fs
        /\ fs[output_file].kind = "text"
        /\ fs[json_file].kind = "json"

----------------------------------------------------------------------------
(* C6: after a run that completes with a non-empty listing, the ids read back  *)
(* from the JSON file are the ids of the listing get_image_files returned, in  *)
(* number and in value, whichever folder fetches raised.                       *)
C6_JsonIdsAreListingIds ==
    NormalEnd =>
        /\ json_file \in DOMAIN fs
        /\ fs[json_file].kind = "json"
        /\ JsonLoadIds(fs[json_file]) = [k \in 1..Len(images) |-> images[k].id]
        /\ JsonLoadIds(fs[json_file]) =
               [k \in 1..Len(images) |-> ImagesOfPages(Len(drive_pages))[k].id]

\* a run with two images ended although a folder fetch had raised
C6_Witness ==
    /\ NormalEnd
    /\ Len(images) = 2
    /\ SomeFetchRaised
    /\ JsonLoadIds(fs[json_file]) = << <<"i", "1">>, <<"i", "2">> >>

----------------------------------------------------------------------------
(* C7: when get_image_files returns no image file, main prints "No image files *)
(* found.", ends without reaching its error handler, writes no file, does not  *)
(* ask for the output filename and fetches no folder metadata.                 *)
C7_EmptyListingNoOutput ==
    (Listed /\ images = <<>>) =>
        /\ pc \in {"listed", "done"}
        /\ DOMAIN fs = {}
        /\ fetch_log = <<>>
        /\ Count(out, "Output filename (default: image_paths.txt): ") = 0
        /\ Count(out, "Error: list") = 0 /\ Count(out, "Error: auth") = 0
        /\ pc = "done" => out[Len(out)] = "No image files found."

\* a listing of two pages that holds files, none of them an image, ended
C7_Witness ==
    /\ pc = "done" /\ failure = "none" /\ images = <<>>
    /\ Len(drive_pages) = 2
    /\ Len(Flatten(drive_pages)) = 2
    /\ folder_id = <<>>

----------------------------------------------------------------------------
(* C8: when authentication or a page request raises, main's handler prints the *)
(* error and the run ends with no output file; no output file exists before    *)
(* every page was listed, and no call that failed is made again.               *)
C8_FatalErrorsLeaveNoOutput ==
    /\ DOMAIN fs # {} =>
         /\ failure = "none"
         /\ list_log = TokensOfPages(Len(drive_pages))
         /\ pc \in {"loop", "resolve", "json", "done"}
    /\ failure # "none" =>
         /\ failure \in {"auth", "list"}
         /\ pc = "done"
         /\ DOMAIN fs = {}
         /\ out[Len(out)] = "Error: " \o failure
         /\ failure = "auth" => list_log = <<>>
    /\ NoRepeat(list_log)
    /\ Count(out, "Authenticating with Google Drive...") <= 1

\* the request for the second page raised after the first page gave an image
C8_Witness ==
    /\ failure = "list"
    /\ Len(list_log) = 2
    /\ images # <<>>
    /\ pc = "done"

----------------------------------------------------------------------------
\* within one get_folder_path call no folder is fetched twice
OneFetchPerFolder ==
    \A k \in 1..Len(images) : NoRepeat(WalkOf(k))

(* C10 as stated: on every finite parent graph, from every starting folder,    *)
(* the walk returns after at most one metadata fetch per distinct folder.      *)
(* Violated on a graph whose first-parent chain runs into a cycle.             *)
C10_OneFetchPerFolder == OneFetchPerFolder

(* C10 amended: on every finite parent graph whose first-parent chains have no *)
(* cycle, from every starting folder, the walk never holds more frames than    *)
(* there are folders and fetches no folder twice; and every call returns.      *)
C10_WalkTerminates ==
    /\ [](Acyclic(folders) =>
            OneFetchPerFolder /\ Len(stack) <= Cardinality(FolderIds))
    /\ [](pc = "resolve" => <>(pc = "loop"))

\* a walk over a chain of three folders returned
C10_Witness ==
    /\ Acyclic(folders)
    /\ pc = "loop"
    /\ Len(resolved) = 1
    /\ Len(WalkOf(1)) = 3
    /\ AllFetchesOk

====
